---- MODULE Spec2Model ----
(***************************************************************************)
(* A model of the Dropbox OAuth token relay of src/main.go.                *)
(*                                                                         *)
(* The process loads its configuration, serves two endpoints behind a CORS *)
(* wrapper, and shuts down on SIGINT/SIGTERM.  A request is handled by one *)
(* goroutine, which waits for the network in four places; each wait ends   *)
(* in a step of its own: Accept (the connection), ReadRequest (the request *)
(* line and headers; withCORS), ReadBody (Decode; the endpoint up to the   *)
(* PostForm call), PostFormReturns or PostFormFails, and ReadAllReturns    *)
(* (io.ReadAll; the response is written).  The writes to the client end    *)
(* their steps: nothing of the handler runs after them.  Time is abstract: *)
(* the 10 s client timeout is one of the ways PostForm or the body read    *)
(* can fail, the 5 s grace period ends in the GraceExpires step.           *)
(***************************************************************************)
EXTENDS Naturals, Sequences, FiniteSets, Bags

VARIABLES
    phase,      \* where main() is: start, panicked, serving, signalled, shutting,
                \* draining, stopped, fatal
    env,        \* the process environment read by os.Getenv
    cfg,        \* the global Config
    panicMsg,   \* the value main() panicked with ("" while it has not)
    conns,      \* the bag of connections: where the goroutine that serves each is
    exchange    \* what the handler that ran in the last step read and sent: the
                \* request, the form, the upstream result, the response ("none" when
                \* the step sent nothing)

vars == <<phase, env, cfg, panicMsg, conns, exchange>>

----------------------------------------------------------------------------
(* Bounds *)

\* Connections accepted over the life of the process (they may overlap).
MaxRequests == 2

----------------------------------------------------------------------------
(* Program constants *)

StatusNoContent == 204
StatusBadRequest == 400
StatusBadGateway == 502

AllowOrigin == "http://localhost:4200"
AllowMethods == "POST, GET, OPTIONS, PUT, DELETE"
AllowHeaders == "Content-Type, Authorization"

HeaderKeys == {"Access-Control-Allow-Origin", "Access-Control-Allow-Methods",
               "Access-Control-Allow-Headers", "Content-Type"}

\* The two messages handed to writeError, as the bytes of the Go string.
InvalidRequestBody ==
    <<"i","n","v","a","l","i","d"," ","r","e","q","u","e","s","t"," ","b","o","d","y">>
FailedToContactDropbox ==
    <<"f","a","i","l","e","d"," ","t","o"," ","c","o","n","t","a","c","t"," ",
      "d","r","o","p","b","o","x">>

----------------------------------------------------------------------------
(* Inputs *)

\* The environments the process may be started in: each variable holds a value of
\* its own or "", which is what Getenv gives for an unset one.
Environments == [DROPBOX_CLIENT_ID : {"", "app-key"},
                 DROPBOX_CLIENT_SECRET : {"", "app-secret"},
                 DROPBOX_REDIRECT_URI : {"", "http://localhost:4200/callback"}]

Signals == {"SIGINT", "SIGTERM"}
Methods == {"POST", "OPTIONS"}
Paths == {"/api/dropbox/exchange", "/api/dropbox/refresh"}

\* The value of one member of a JSON object in a request body.
Absent == [t |-> "absent", s |-> ""]          \* the member is not there
JNull == [t |-> "null", s |-> ""]             \* "code": null
JNumber == [t |-> "number", s |-> ""]         \* "code": 123
JString(s) == [t |-> "string", s |-> s]       \* "code": "abc123"
Strings == {"", "abc123"}
FieldVals == {Absent, JNull, JNumber} \cup {JString(s) : s \in Strings}
JSONKeys == {"code", "refresh_token"}

\* A request body.  k says what the bytes are:
\*   "empty"   no bytes at all
\*   "text"    bytes that do not start with a JSON value (code=abc123, or {"code":"abc )
\*   "null"    the JSON value null
\*   "array"   a JSON array, [] or ["abc123"]
\*   "string"  a JSON string, "abc123"
\*   "object"  a JSON object with the members given by fields; trailing says that
\*             more bytes, not JSON, follow the closing brace
NoFields == [key \in JSONKeys |-> Absent]
Plain(k) == [k |-> k, fields |-> NoFields, trailing |-> FALSE]
Object(fields, trailing) == [k |-> "object", fields |-> fields, trailing |-> trailing]

\* The objects tried: one with at most one member, with any value; the same
\* followed by bytes that are not JSON, when it is {} or holds "abc123"; and one
\* with both members.
OneMember ==
    {f \in [JSONKeys -> FieldVals] :
        \E key \in JSONKeys : \A other \in JSONKeys \ {key} : f[other] = Absent}
WithJunk == {f \in OneMember : \A key \in JSONKeys : f[key] \in {Absent, JString("abc123")}}
BothMembers == [key \in JSONKeys |-> JString("abc123")]
RequestBodies ==
    {Plain(k) : k \in {"empty", "text", "null", "array", "string"}}
    \cup {Object(f, FALSE) : f \in OneMember \cup {BothMembers}}
    \cup {Object(f, TRUE) : f \in WithJunk}

\* What the upstream may send: a status and a body, here no bytes or the bytes
\* of {}.
UpstreamStatuses == {200, 400, 599}
UpstreamBodies == {<<>>, <<"{", "}">>}

\* What client.PostForm and the body read that follows it can come to:
\*   err = TRUE: PostForm returned an error (no connection, timeout, TLS failure);
\*   err = FALSE: PostForm returned a response with this status, whose body is
\*     `body`, of which `arrived` bytes reach the relay before the read ends
\*     (arrived < Len(body): the connection broke or the client timeout struck
\*     while the body was being read).
TransportError == [err |-> TRUE, status |-> 0, body |-> <<>>, arrived |-> 0]
UpstreamResults ==
    {TransportError}
    \cup UNION {{[err |-> FALSE, status |-> s, body |-> b, arrived |-> n] :
                    s \in UpstreamStatuses, n \in 0..Len(b)} : b \in UpstreamBodies}

----------------------------------------------------------------------------
(* http.ResponseWriter *)

NewResponseWriter ==
    [header |-> [k \in HeaderKeys |-> ""], status |-> 0, body |-> <<>>]

HeaderSet(w, key, value) == [w EXCEPT !.header[key] = value]

\* The first WriteHeader fixes the status.
WriteHeader(w, status) == IF w.status = 0 THEN [w EXCEPT !.status = status] ELSE w

\* Write sends the bytes; it sends status 200 first when none was written.
Write(w, bytes) ==
    LET started == WriteHeader(w, 200)
    IN [started EXCEPT !.body = @ \o bytes]

\* json.NewEncoder(w).Encode(map[string]string{"error": message}): the object on
\* one line, followed by a newline.
EncodeError(message) ==
    <<"{", "\"", "e", "r", "r", "o", "r", "\"", ":", "\"">> \o message \o <<"\"", "}", "\n">>

writeError(w, message, status) ==
    Write(WriteHeader(HeaderSet(w, "Content-Type", "application/json"), status),
          EncodeError(message))

----------------------------------------------------------------------------
(* json.NewDecoder(r.Body).Decode(&req) *)

\* Mutant of Decode: a member of the wrong type is skipped instead of reported.
DecodeLenient(body, key) ==
    CASE body.k \in {"empty", "text"} -> [err |-> TRUE, val |-> ""]
      [] body.k = "null" -> [err |-> FALSE, val |-> ""]
      [] body.k = "object" ->
            LET f == body.fields[key]
            IN IF f.t = "string" THEN [err |-> FALSE, val |-> f.s]
               ELSE [err |-> FALSE, val |-> ""]
      [] OTHER -> [err |-> TRUE, val |-> ""]

\* Decode reads the first JSON value of the body into a struct with one string
\* field named key.  It fails when the body does not start with a JSON value, when
\* the value is neither an object nor null, and when the member named key is
\* neither a string nor null.  Other members and the bytes after the value are
\* not looked at; null leaves the struct as it is.
Decode(body, key) ==
    CASE body.k \in {"empty", "text"} -> [err |-> TRUE, val |-> ""]
      [] body.k = "null" -> [err |-> FALSE, val |-> ""]
      [] body.k = "object" ->
            LET f == body.fields[key]
            IN CASE f.t \in {"absent", "null"} -> [err |-> FALSE, val |-> ""]
                 [] f.t = "string" -> [err |-> FALSE, val |-> f.s]
                 [] OTHER -> [err |-> TRUE, val |-> ""]
      [] OTHER -> [err |-> TRUE, val |-> ""]

----------------------------------------------------------------------------
(* The endpoints *)

\* What a handler chain has done when it returns or waits: the response writer,
\* whether it decoded the request body, the form it called PostForm with, if it
\* did, and whether withCORS passed the request on (next.ServeHTTP).
NoData == [none |-> <<>>]
Returned(w, decoded) ==
    [w |-> w, decoded |-> decoded, post |-> FALSE, data |-> NoData, next |-> FALSE]

\* withCORS calls next.ServeHTTP(w, r): the endpoint starts and reads the body.
ServeNext(w) ==
    [w |-> w, decoded |-> FALSE, post |-> FALSE, data |-> NoData, next |-> TRUE]

\* callDropbox up to client.PostForm(url, data): the handler waits in the call.
PostForm(w, data) ==
    [w |-> w, decoded |-> TRUE, post |-> TRUE, data |-> data, next |-> FALSE]

\* The url.Values of the two endpoints; every key holds one value.
exchangeData(code) ==
    [code |-> <<code>>,
     grant_type |-> <<"authorization_code">>,
     client_id |-> <<cfg.ClientID>>,
     client_secret |-> <<cfg.ClientSecret>>,
     redirect_uri |-> <<cfg.RedirectURI>>]

\* Mutant of refreshData: the form of the exchange endpoint copied, redirect_uri kept.
refreshDataWithRedirect(token) ==
    [refresh_token |-> <<token>>,
     grant_type |-> <<"refresh_token">>,
     client_id |-> <<cfg.ClientID>>,
     client_secret |-> <<cfg.ClientSecret>>,
     redirect_uri |-> <<cfg.RedirectURI>>]

refreshData(token) ==
    [refresh_token |-> <<token>>,
     grant_type |-> <<"refresh_token">>,
     client_id |-> <<cfg.ClientID>>,
     client_secret |-> <<cfg.ClientSecret>>]

\* The endpoints, from the return of Decode on (r.body is the body it read).
exchangeHanlder(w, r) ==
    LET req == Decode(r.body, "code")
    IN IF req.err
       THEN Returned(writeError(w, InvalidRequestBody, StatusBadRequest), TRUE)
       ELSE PostForm(w, exchangeData(req.val))

refreshHandler(w, r) ==
    LET req == Decode(r.body, "refresh_token")
    IN IF req.err
       THEN Returned(writeError(w, InvalidRequestBody, StatusBadRequest), TRUE)
       ELSE PostForm(w, refreshData(req.val))

\* The mux of main(): the two registered paths.
mux(w, r) ==
    IF r.path = "/api/dropbox/exchange" THEN exchangeHanlder(w, r)
    ELSE refreshHandler(w, r)

\* Mutant of withCORS: the return after the preflight answer is missing.
withCORSNoReturn(w, r) ==
    LET w1 == HeaderSet(w, "Access-Control-Allow-Origin", AllowOrigin)
        w2 == HeaderSet(w1, "Access-Control-Allow-Methods", AllowMethods)
        w3 == HeaderSet(w2, "Access-Control-Allow-Headers", AllowHeaders)
    IN IF r.method = "OPTIONS"
       THEN ServeNext(WriteHeader(w3, StatusNoContent))
       ELSE ServeNext(w3)

\* Mutant of withCORS: the headers are set for the preflight request only.
withCORSPreflightOnly(w, r) ==
    LET w1 == HeaderSet(w, "Access-Control-Allow-Origin", AllowOrigin)
        w2 == HeaderSet(w1, "Access-Control-Allow-Methods", AllowMethods)
        w3 == HeaderSet(w2, "Access-Control-Allow-Headers", AllowHeaders)
    IN IF r.method = "OPTIONS"
       THEN Returned(WriteHeader(w3, StatusNoContent), FALSE)
       ELSE ServeNext(w)

\* withCORS, up to the return of the preflight answer or the call of next.
withCORS(w, r) ==
    LET w1 == HeaderSet(w, "Access-Control-Allow-Origin", AllowOrigin)
        w2 == HeaderSet(w1, "Access-Control-Allow-Methods", AllowMethods)
        w3 == HeaderSet(w2, "Access-Control-Allow-Headers", AllowHeaders)
    IN IF r.method = "OPTIONS"
       THEN Returned(WriteHeader(w3, StatusNoContent), FALSE)
       ELSE ServeNext(w3)

\* io.ReadAll(resp.Body): the bytes that arrived, and whether the read failed.
ReadAll(resp) ==
    [body |-> SubSeq(resp.body, 1, resp.arrived), err |-> resp.arrived < Len(resp.body)]

\* Mutant of callDropbox: a failed PostForm is answered like a failed decode.
callDropboxBadRequest(w, result) ==
    IF result.err
    THEN writeError(w, FailedToContactDropbox, StatusBadRequest)
    ELSE LET body == ReadAll(result).body
         IN Write(WriteHeader(HeaderSet(w, "Content-Type", "application_json"),
                              result.status),
                  body)

\* callDropbox from the return of client.PostForm on.  The error of ReadAll is
\* dropped (body, _ := io.ReadAll(resp.Body)).
callDropbox(w, result) ==
    IF result.err
    THEN writeError(w, FailedToContactDropbox, StatusBadGateway)
    ELSE LET body == ReadAll(result).body
         IN Write(WriteHeader(HeaderSet(w, "Content-Type", "application_json"),
                              result.status),
                  body)

----------------------------------------------------------------------------
(* main *)

ZeroConfig == [ClientID |-> "", ClientSecret |-> "", RedirectURI |-> ""]

Getenv(name) == env[name]

LoadConfig ==
    [ClientID |-> Getenv("DROPBOX_CLIENT_ID"),
     ClientSecret |-> Getenv("DROPBOX_CLIENT_SECRET"),
     RedirectURI |-> Getenv("DROPBOX_REDIRECT_URI")]

\* Mutant of ConfigPanic: the client secret is checked before the client identifier.
ConfigPanicSecretFirst(c) ==
    IF c.ClientSecret = ""
    THEN "Missing required environment variable: DROPBOX_CLIENT_SECRET"
    ELSE IF c.ClientID = ""
         THEN "Missing required environment variables: DROPBOX_CLIENT_ID"
    ELSE IF c.RedirectURI = ""
         THEN "Missing required environment variable: DROPBOX_REDIRECT_URI"
    ELSE ""

\* The panic of main() for a configuration, "" when it does not panic.
ConfigPanic(c) ==
    IF c.ClientID = "" THEN "Missing required environment variables: DROPBOX_CLIENT_ID"
    ELSE IF c.ClientSecret = ""
         THEN "Missing required environment variable: DROPBOX_CLIENT_SECRET"
    ELSE IF c.RedirectURI = ""
         THEN "Missing required environment variable: DROPBOX_REDIRECT_URI"
    ELSE ""

\* The errors srv.ListenAndServe may return while the server is not shut down, as
\* the goroutine of main() panics with them.
ListenErrors == {"listen tcp :3000: bind: address already in use"}

\* A connection, as the goroutine that serves it holds it.  A connection of the
\* model carries one request: a further request on a connection that is kept
\* alive is another connection here.  Connections have no identity of their own:
\* those in the same state are counted.
\*   new       accepted, no request read yet
\*   decoding  withCORS has called the endpoint, which waits in Decode for the body
\*   waiting   the endpoint waits in client.PostForm(url, data)
\*   reading   PostForm returned a response with this status; io.ReadAll waits
\*   idle      the response is written
\*   closed    srv.Shutdown closed the connection before a request came
\* posts counts the calls of client.PostForm made for the request.
New ==
    [st |-> "new", method |-> "", path |-> "", data |-> NoData, status |-> 0,
     w |-> NewResponseWriter, posts |-> 0]
Idle(posts) == [New EXCEPT !.st = "idle", !.posts = posts]
Closed == [New EXCEPT !.st = "closed"]
Decoding(method, path, w) ==
    [New EXCEPT !.st = "decoding", !.method = method, !.path = path, !.w = w]
Waiting(data, w) == [New EXCEPT !.st = "waiting", !.data = data, !.w = w, !.posts = 1]
Reading(data, status, w, posts) ==
    [New EXCEPT !.st = "reading", !.data = data, !.status = status, !.w = w,
                !.posts = posts]

\* The connections in one of the states sts, and how many they are.
In(sts) == {c \in BagToSet(conns) : c.st \in sts}
Count(sts) == BagCardinality([c \in In(sts) |-> conns[c]])

\* The goroutine of connection c moves on to d.
Moved(c, d) == (conns (-) SetToBag({c})) (+) SetToBag({d})

\* The body of a request of which only the request line and the headers are read.
Unread == Plain("unread")
NoRequest == [method |-> "", path |-> "", body |-> Unread]
NoExchange ==
    [kind |-> "none", r |-> NoRequest, decoded |-> FALSE, posts |-> 0,
     data |-> NoData, result |-> TransportError, w |-> NewResponseWriter]

\* The requests being handled: read, and not answered yet.
InFlight == In({"decoding", "waiting", "reading"})

\* The connections srv.Shutdown waits for.
Active == In({"new", "decoding", "waiting", "reading"})

\* The process is running and handlers make progress.
Alive == phase \in {"serving", "signalled", "shutting", "draining"}

\* Mutant of Listening: Shutdown leaves the listener open.
ListeningWhileShutting == Alive

\* The listener accepts connections from ListenAndServe until srv.Shutdown closes it.
Listening == phase \in {"serving", "signalled"}

Init ==
    /\ phase = "start"
    /\ env \in Environments
    /\ cfg = ZeroConfig
    /\ panicMsg = ""
    /\ conns = EmptyBag
    /\ exchange = NoExchange

\* main() from its first line to the start of the listener goroutine.
Start ==
    /\ phase = "start"
    /\ cfg' = LoadConfig
    /\ panicMsg' = ConfigPanic(cfg')
    /\ phase' = IF panicMsg' = "" THEN "serving" ELSE "panicked"
    /\ UNCHANGED <<env, conns, exchange>>

\* srv.ListenAndServe returns an error other than ErrServerClosed (the port is in
\* use, the listener breaks): the goroutine panics and the process dies, with
\* whatever its handlers were doing.
ListenAndServeFails(err) ==
    /\ Listening
    /\ phase' = "panicked"
    /\ panicMsg' = err
    /\ exchange' = NoExchange
    /\ UNCHANGED <<env, cfg, conns>>

\* The listener accepts a connection.
Accept ==
    /\ Listening
    /\ BagCardinality(conns) < MaxRequests
    /\ conns' = conns (+) SetToBag({New})
    /\ exchange' = NoExchange
    /\ UNCHANGED <<phase, env, cfg, panicMsg>>

\* The request line and the headers of a request arrive on a connection, and its
\* goroutine runs withCORS: to the end for a preflight request, otherwise into
\* the endpoint, which starts to read the body.
ReadRequest(method, path) ==
    \E c \in BagToSet(conns) :
        /\ Alive
        /\ c.st = "new"
        /\ LET r == [method |-> method, path |-> path, body |-> Unread]
               h == withCORS(NewResponseWriter, r)
           IN /\ conns' = Moved(c, IF h.next THEN Decoding(method, path, h.w) ELSE Idle(0))
              /\ exchange' = IF h.w.status # 0
                             THEN [kind |-> "headers", r |-> r, decoded |-> h.decoded,
                                   posts |-> 0, data |-> h.data,
                                   result |-> TransportError, w |-> h.w]
                             ELSE NoExchange
        /\ UNCHANGED <<phase, env, cfg, panicMsg>>

\* Decode returns in the endpoint of a connection, with the body read; the
\* endpoint answers 400 or goes on into client.PostForm.
ReadBody(body) ==
    \E c \in BagToSet(conns) :
        /\ Alive
        /\ c.st = "decoding"
        /\ LET r == [method |-> c.method, path |-> c.path, body |-> body]
               h == mux(c.w, r)
           IN /\ conns' = Moved(c, IF h.post THEN Waiting(h.data, h.w) ELSE Idle(0))
              /\ exchange' = [kind |-> "body", r |-> r, decoded |-> h.decoded,
                              posts |-> IF h.post THEN 1 ELSE 0, data |-> h.data,
                              result |-> TransportError, w |-> h.w]
        /\ UNCHANGED <<phase, env, cfg, panicMsg>>

\* client.PostForm returns an error in the handler of a connection, which
\* answers 502.
PostFormFails ==
    \E c \in BagToSet(conns) :
        /\ Alive
        /\ c.st = "waiting"
        /\ conns' = Moved(c, Idle(c.posts))
        /\ exchange' = [kind |-> "postform", r |-> NoRequest, decoded |-> TRUE, posts |-> 0,
                        data |-> c.data, result |-> TransportError,
                        w |-> callDropbox(c.w, TransportError)]
        /\ UNCHANGED <<phase, env, cfg, panicMsg>>

\* client.PostForm returns a response (its status and headers are in); the
\* handler goes on into io.ReadAll(resp.Body).
PostFormReturns(status) ==
    \E c \in BagToSet(conns) :
        /\ Alive
        /\ c.st = "waiting"
        /\ conns' = Moved(c, Reading(c.data, status, c.w, c.posts))
        /\ exchange' = NoExchange
        /\ UNCHANGED <<phase, env, cfg, panicMsg>>

\* io.ReadAll returns in the handler of a connection: of the body the upstream
\* sent, result.arrived bytes were read.  The handler writes the response and
\* returns.
ReadAllReturns(result) ==
    \E c \in BagToSet(conns) :
        /\ Alive
        /\ c.st = "reading"
        /\ ~result.err
        /\ result.status = c.status
        /\ conns' = Moved(c, Idle(c.posts))
        /\ exchange' = [kind |-> "readall", r |-> NoRequest, decoded |-> TRUE,
                        posts |-> 0, data |-> c.data, result |-> result,
                        w |-> callDropbox(c.w, result)]
        /\ UNCHANGED <<phase, env, cfg, panicMsg>>

\* main() receives a signal from quit.
Signal(sig) ==
    /\ phase = "serving"
    /\ phase' = "signalled"
    /\ exchange' = NoExchange
    /\ UNCHANGED <<env, cfg, panicMsg, conns>>

\* main() calls srv.Shutdown(ctx), which closes the listener.
ShutdownBegins ==
    /\ phase = "signalled"
    /\ phase' = "shutting"
    /\ exchange' = NoExchange
    /\ UNCHANGED <<env, cfg, panicMsg, conns>>

\* srv.Shutdown looks at the connections: it closes `old` of the new ones, those
\* that have sent no request for 5 s, and returns nil when no connection is left
\* active: main() prints "Server stopped" and returns.  Otherwise it waits for
\* its poll timer or for the end of ctx.
ShutdownPolls(old) ==
    /\ phase = "shutting"
    /\ old <= Count({"new"})
    /\ conns' = IF old = 0 THEN conns
                ELSE (conns (-) [c \in {New} |-> old]) (+) [c \in {Closed} |-> old]
    /\ phase' = IF In({"decoding", "waiting", "reading"}) = {} /\ old = Count({"new"})
                THEN "stopped" ELSE "draining"
    /\ exchange' = NoExchange
    /\ UNCHANGED <<env, cfg, panicMsg>>

\* The poll timer of srv.Shutdown fires.
PollTimer ==
    /\ phase = "draining"
    /\ phase' = "shutting"
    /\ exchange' = NoExchange
    /\ UNCHANGED <<env, cfg, panicMsg, conns>>

\* The 5 s of ctx are over while srv.Shutdown waits: it returns ctx.Err(), main()
\* panics.
GraceExpires ==
    /\ phase = "draining"
    /\ phase' = "fatal"
    /\ panicMsg' = "context deadline exceeded"
    /\ exchange' = NoExchange
    /\ UNCHANGED <<env, cfg, conns>>

Next ==
    \/ Start
    \/ \E err \in ListenErrors : ListenAndServeFails(err)
    \/ Accept
    \/ \E method \in Methods, path \in Paths : ReadRequest(method, path)
    \/ \E body \in RequestBodies : ReadBody(body)
    \/ PostFormFails
    \/ \E status \in UpstreamStatuses : PostFormReturns(status)
    \/ \E result \in UpstreamResults : ReadAllReturns(result)
    \/ \E sig \in Signals : Signal(sig)
    \/ ShutdownBegins
    \/ \E old \in 0..MaxRequests : ShutdownPolls(old)
    \/ PollTimer
    \/ GraceExpires

Spec == Init /\ [][Next]_vars

----------------------------------------------------------------------------
(* Vocabulary of the properties *)

\* The handler step executed last: withCORS answered a preflight request; an
\* endpoint decoded a body; a handler answered after PostForm failed, or after
\* the upstream's response was read.
Preflighted == exchange.kind = "headers"
ReachedEndpoint == exchange.kind = "body"
Replied == exchange.kind \in {"postform", "readall"}

\* The member an endpoint expects in the request body.
ExpectedKey(path) == IF path = "/api/dropbox/exchange" THEN "code" ELSE "refresh_token"
ExpectedMember(r) == r.body.fields[ExpectedKey(r.path)]

\* The body is a JSON document of the expected shape: an object, and nothing
\* else, that holds the expected member as a string.
ValidShape(r) ==
    /\ r.body.k = "object"
    /\ ~r.body.trailing
    /\ ExpectedMember(r).t = "string"

\* The documented parameter set of an endpoint, for the value the user supplied,
\* with the credentials of the environment the process was started in.
DocumentedForm(path, value) ==
    IF path = "/api/dropbox/exchange"
    THEN [code |-> <<value>>,
          grant_type |-> <<"authorization_code">>,
          client_id |-> <<env.DROPBOX_CLIENT_ID>>,
          client_secret |-> <<env.DROPBOX_CLIENT_SECRET>>,
          redirect_uri |-> <<env.DROPBOX_REDIRECT_URI>>]
    ELSE [refresh_token |-> <<value>>,
          grant_type |-> <<"refresh_token">>,
          client_id |-> <<env.DROPBOX_CLIENT_ID>>,
          client_secret |-> <<env.DROPBOX_CLIENT_SECRET>>]

\* The bytes of {"error":"invalid request body"} and of
\* {"error":"failed to contact dropbox"}, each followed by a newline.
InvalidBodyJSON ==
    <<"{","\"","e","r","r","o","r","\"",":","\"",
      "i","n","v","a","l","i","d"," ","r","e","q","u","e","s","t"," ","b","o","d","y",
      "\"","}","\n">>
FailedContactJSON ==
    <<"{","\"","e","r","r","o","r","\"",":","\"",
      "f","a","i","l","e","d"," ","t","o"," ","c","o","n","t","a","c","t"," ",
      "d","r","o","p","b","o","x","\"","}","\n">>

\* The response is the relay's 400 and nothing was sent upstream.
Rejected ==
    /\ exchange.w.status = 400
    /\ exchange.w.body = InvalidBodyJSON
    /\ exchange.posts = 0
    /\ exchange.data = NoData

\* The response carries the three CORS headers with their fixed values.
HasCORS(w) ==
    /\ w.header["Access-Control-Allow-Origin"] = "http://localhost:4200"
    /\ w.header["Access-Control-Allow-Methods"] = "POST, GET, OPTIONS, PUT, DELETE"
    /\ w.header["Access-Control-Allow-Headers"] = "Content-Type, Authorization"

\* The connections accepted so far, and those of them whose request has come
\* and has been given to the handler.
Accepted == BagCardinality(conns)
Handled == Count({"decoding", "waiting", "reading", "idle"})

\* The user-supplied parameter of a posted form.
UserParameter(data) ==
    IF "code" \in DOMAIN data THEN data.code ELSE data.refresh_token

----------------------------------------------------------------------------
(* C1 *)

\* C1: a request body that is valid JSON of the expected shape makes the endpoint
\* post exactly once, with exactly the documented parameters: the exchange
\* endpoint code, grant_type=authorization_code, client_id, client_secret and
\* redirect_uri; the refresh endpoint refresh_token, grant_type=refresh_token,
\* client_id and client_secret, and no redirect_uri.  No request posts twice.
C1_DocumentedUpstreamCall ==
    /\ (ReachedEndpoint /\ ValidShape(exchange.r)) =>
            /\ exchange.posts = 1
            /\ exchange.data = DocumentedForm(exchange.r.path, ExpectedMember(exchange.r).s)
    /\ \A c \in BagToSet(conns) : c.posts <= 1

\* A refresh request of the expected shape has been posted, without redirect_uri.
C1_Witness ==
    /\ ReachedEndpoint
    /\ exchange.r.method = "POST"
    /\ exchange.r.path = "/api/dropbox/refresh"
    /\ exchange.r.body = Object([NoFields EXCEPT !["refresh_token"] = JString("abc123")], FALSE)
    /\ exchange.posts = 1
    /\ "redirect_uri" \notin DOMAIN exchange.data
    /\ exchange.data.refresh_token = <<"abc123">>

----------------------------------------------------------------------------
(* C2 *)

\* The bodies the claim calls malformed: non-JSON, wrong type, missing field.
NonJSON(r) == r.body.k \in {"empty", "text"}
WrongType(r) ==
    \/ r.body.k \in {"array", "string"}
    \/ r.body.k = "object" /\ ExpectedMember(r).t = "number"
MissingField(r) == r.body.k = "object" /\ ExpectedMember(r).t = "absent"

\* C2 as claimed: every malformed body (missing field, wrong type, non-JSON) is
\* answered 400 {"error": "invalid request body"} and nothing is sent upstream.
C2_Original ==
    (ReachedEndpoint /\ (NonJSON(exchange.r) \/ WrongType(exchange.r) \/ MissingField(exchange.r)))
        => Rejected

\* C2 as amended: a body that does not start with a JSON value (non-JSON, empty)
\* or that has the wrong type (a JSON value that is neither an object nor null,
\* or an object whose expected member is neither a string nor null) is answered
\* 400 {"error": "invalid request body"} and nothing is sent upstream.
C2_MalformedRejected ==
    (ReachedEndpoint /\ (NonJSON(exchange.r) \/ WrongType(exchange.r))) => Rejected

\* A body whose expected member is a number has been rejected.
C2_Witness ==
    /\ ReachedEndpoint
    /\ exchange.r.path = "/api/dropbox/exchange"
    /\ exchange.r.body = Object([NoFields EXCEPT !["code"] = JNumber], FALSE)
    /\ Rejected

----------------------------------------------------------------------------
(* C3 *)

\* The expected member is missing or the empty string, in a JSON object.
EmptyOrMissing(r) ==
    /\ r.body.k = "object"
    /\ ~r.body.trailing
    /\ ExpectedMember(r) \in {Absent, JString("")}

\* C3: a valid JSON body that omits the expected field, or carries it as the
\* empty string, is not rejected: the field goes upstream as the empty string in
\* one call, and the caller receives what the upstream returned, unchanged.
\* (The second part is about the answer to a request whose form was posted with
\* the empty string for the field.)
C3_EmptyFieldForwarded ==
    /\ (ReachedEndpoint /\ EmptyOrMissing(exchange.r)) =>
            /\ exchange.w.status = 0
            /\ exchange.posts = 1
            /\ exchange.data = DocumentedForm(exchange.r.path, "")
    /\ (exchange.kind = "readall" /\ UserParameter(exchange.data) = <<"">>) =>
            /\ exchange.w.status = exchange.result.status
            /\ exchange.w.body = exchange.result.body

----------------------------------------------------------------------------
(* C4 *)

\* C4: for every response received from the upstream, the relay's response has
\* the same status code and the same body bytes.
C4_Passthrough ==
    exchange.kind = "readall" =>
        /\ exchange.w.status = exchange.result.status
        /\ exchange.w.body = exchange.result.body

----------------------------------------------------------------------------
(* C5 *)

\* C5: when PostForm fails, the caller receives 502 and
\* {"error": "failed to contact dropbox"}, and the request is not posted again:
\* no request is posted more than once.
C5_TransportFailure ==
    /\ exchange.kind = "postform" =>
            /\ exchange.w.status = 502
            /\ exchange.w.body = FailedContactJSON
            /\ exchange.posts = 0
    /\ \A c \in BagToSet(conns) : c.posts <= 1

\* A request whose PostForm failed has been answered.
C5_Witness ==
    /\ exchange.kind = "postform"
    /\ exchange.result.err
    /\ exchange.w.status = 502
    /\ Idle(1) \in BagToSet(conns)

----------------------------------------------------------------------------
(* C6 *)

\* C6: an OPTIONS request to a registered path is answered 204 with an empty
\* body by withCORS; no endpoint waits for its body or decodes it, and nothing
\* is sent upstream for it.
C6_Preflight ==
    /\ (exchange.kind # "none" /\ exchange.r.method = "OPTIONS") =>
            /\ Preflighted
            /\ exchange.w.status = 204
            /\ exchange.w.body = <<>>
            /\ ~exchange.decoded
            /\ exchange.posts = 0
            /\ exchange.data = NoData
    /\ \A c \in In({"decoding"}) : c.method # "OPTIONS"

\* An OPTIONS request has been answered, and nothing was posted for it.
C6_Witness ==
    /\ Preflighted
    /\ exchange.r.method = "OPTIONS"
    /\ exchange.r.path = "/api/dropbox/exchange"
    /\ exchange.w.status = 204
    /\ conns = SetToBag({Idle(0)})

----------------------------------------------------------------------------
(* C7 *)

\* C7: every response, whatever its outcome (204, 400, 502, passthrough), carries
\* the three CORS headers with their fixed values; so does the response writer of
\* a handler that has not answered yet.
C7_CORSHeaders ==
    /\ exchange.kind # "none" => HasCORS(exchange.w)
    /\ \A c \in InFlight : HasCORS(c.w)

\* An upstream 599 has been passed on, with the CORS headers.
C7_Witness ==
    /\ exchange.kind = "readall"
    /\ exchange.w.status = 599
    /\ exchange.result.status = 599
    /\ HasCORS(exchange.w)

----------------------------------------------------------------------------
(* C8 *)

\* The first required variable that is empty, in the order client identifier,
\* client secret, redirect URI; "" when none is.
FirstMissing ==
    IF env.DROPBOX_CLIENT_ID = "" THEN "DROPBOX_CLIENT_ID"
    ELSE IF env.DROPBOX_CLIENT_SECRET = "" THEN "DROPBOX_CLIENT_SECRET"
    ELSE IF env.DROPBOX_REDIRECT_URI = "" THEN "DROPBOX_REDIRECT_URI"
    ELSE ""

\* The panic values that name a variable.
Naming(name) ==
    {"Missing required environment variable: " \o name,
     "Missing required environment variables: " \o name}

\* C8: with a required value empty the process aborts, naming the first missing
\* one, before the listener starts; no request is served with a partial
\* configuration; and Configuration does not change once loaded.
C8_Configuration ==
    /\ [](phase # "start" /\ FirstMissing # "" =>
            /\ phase = "panicked"
            /\ panicMsg \in Naming(FirstMissing)
            /\ Accepted = 0
            /\ exchange = NoExchange)
    /\ [](Accepted # 0 =>
            /\ cfg.ClientID # "" /\ cfg.ClientSecret # "" /\ cfg.RedirectURI # ""
            /\ cfg.ClientID = env.DROPBOX_CLIENT_ID
            /\ cfg.ClientSecret = env.DROPBOX_CLIENT_SECRET
            /\ cfg.RedirectURI = env.DROPBOX_REDIRECT_URI)
    /\ [][phase # "start" => cfg' = cfg]_vars

\* The process has aborted with two values missing, the client identifier set.
C8_Witness ==
    /\ phase = "panicked"
    /\ env.DROPBOX_CLIENT_ID # ""
    /\ env.DROPBOX_CLIENT_SECRET = ""
    /\ env.DROPBOX_REDIRECT_URI = ""
    /\ panicMsg \in Naming("DROPBOX_CLIENT_SECRET")

----------------------------------------------------------------------------
(* C9 *)

\* srv.Shutdown is running.
ShuttingDown == phase \in {"shutting", "draining"}

\* The shutdown ends clean only with no request in flight, and one that ends with
\* requests in flight ends fatal.
ShutdownOutcome ==
    /\ [](phase = "stopped" => InFlight = {})
    /\ [][(ShuttingDown /\ ~ShuttingDown' /\ InFlight # {}) => (phase' = "fatal")]_vars

\* C9 as claimed: after the termination signal is received no newly arriving
\* request is handled; the clean stopped state is reached only with no request in
\* flight, and a grace period that ends with requests in flight ends fatal.
C9_Original ==
    /\ [][(phase \in {"signalled", "shutting", "draining", "stopped", "fatal"})
            => (Handled' = Handled)]_vars
    /\ ShutdownOutcome

\* C9 as amended: once srv.Shutdown, called after the signal is received, has
\* closed the listener, no new connection is accepted (a request that comes on a
\* connection accepted before is still handled); the rest as claimed.
C9_GracefulShutdown ==
    /\ [][(phase \in {"shutting", "draining", "stopped", "fatal"})
            => (Accepted' = Accepted)]_vars
    /\ ShutdownOutcome

\* A request in flight has been answered while srv.Shutdown waited for it, and
\* no connection is left for it to wait for.
C9_Witness ==
    /\ phase = "draining"
    /\ exchange.kind = "readall"
    /\ exchange.w.status = 200
    /\ Active = {}
    /\ Idle(1) \in BagToSet(conns)

----------------------------------------------------------------------------
(* C10 *)

\* C10: every response other than the preflight response (400, 502, passthrough)
\* has Content-Type application/json.
C10_ContentType ==
    (exchange.kind \in {"body", "postform", "readall"} /\ exchange.w.status # 0)
        => exchange.w.header["Content-Type"] = "application/json"

====
